---- MODULE Spec2Model ----
(***************************************************************************)
(* Model of the BandaCV conveyor firmware (src/arduino_code): the serial   *)
(* command channel with its heartbeat watchdog and telemetry timer, the    *)
(* motor and servo outputs, and the interrupt-driven RPM sensor.           *)
(*                                                                         *)
(* Strings are sequences of one-character strings.  millis() values are    *)
(* unsigned 32-bit; they are kept as two 16-bit halves [hi, lo] so that    *)
(* the modular subtraction of the elapsed-time tests keeps its width.      *)
(***************************************************************************)
EXTENDS Integers, Sequences, FiniteSets, TLC

\* ------------------------------------------------------------------------
\* unsigned long (32 bit) arithmetic on halves
\* ------------------------------------------------------------------------
Half == 2^16

U32(n) == [hi |-> n \div Half, lo |-> n % Half]

U32Zero == U32(0)

U32Values == [hi : 0..(Half - 1), lo : 0..(Half - 1)]

\* a + d (mod 2^32) for 0 <= d < 2^30
U32Add(a, d) ==
    LET sum == a.lo + (d % Half)
        carry == sum \div Half
    IN  [hi |-> (a.hi + (d \div Half) + carry) % Half, lo |-> sum % Half]

\* a - b (mod 2^32), the value of the C expression a - b on unsigned long
U32Sub(a, b) ==
    LET borrow == IF a.lo < b.lo THEN 1 ELSE 0
    IN  [hi |-> (a.hi - b.hi - borrow) % Half, lo |-> (a.lo - b.lo) % Half]

U32Less(a, b) == a.hi < b.hi \/ (a.hi = b.hi /\ a.lo < b.lo)

U32Leq(a, b) == a = b \/ U32Less(a, b)

\* ------------------------------------------------------------------------
\* config.h
\* ------------------------------------------------------------------------
SERIAL_SEND_INTERVAL_MS == 100
HEARTBEAT_TIMEOUT_MS == 2000
ENCODER_BASE_CPR == 16
MOTOR_GEAR_RATIO == 30
ENCODER_PULSES_PER_REVOLUTION == ENCODER_BASE_CPR * MOTOR_GEAR_RATIO
SERVO_POS_TRIANGLE == 30
SERVO_POS_SQUARE == 90
SERVO_POS_CIRCLE == 150
SERVO_POS_UNKNOWN == 0

\* ------------------------------------------------------------------------
\* Arduino String operations used by Communication::processCommand
\* ------------------------------------------------------------------------
Digits == {"0", "1", "2", "3", "4", "5", "6", "7", "8", "9"}

DigitVal(c) ==
    CASE c = "0" -> 0 [] c = "1" -> 1 [] c = "2" -> 2 [] c = "3" -> 3
      [] c = "4" -> 4 [] c = "5" -> 5 [] c = "6" -> 6 [] c = "7" -> 7
      [] c = "8" -> 8 [] c = "9" -> 9

\* the vertical-tab byte 0x0B, which has no escape in a TLA+ string
VT == "\\v"

\* isspace() of the C library: space, \t, \n, \v, \f, \r
IsSpace(c) == c \in {" ", "\t", "\n", VT, "\f", "\r"}

\* String::trim(): drops leading and trailing whitespace
Trim(s) ==
    LET keep == {i \in 1..Len(s) : ~IsSpace(s[i])}
    IN  IF keep = {} THEN <<>>
        ELSE LET first == CHOOSE i \in keep : \A j \in keep : i <= j
                 last == CHOOSE i \in keep : \A j \in keep : j <= i
             IN  SubSeq(s, first, last)

\* String::indexOf(ch): 0-based index of the first occurrence, -1 if none
IndexOf(s, ch) ==
    LET hits == {i \in 1..Len(s) : s[i] = ch}
    IN  IF hits = {} THEN -1
        ELSE (CHOOSE i \in hits : \A j \in hits : i <= j) - 1

\* String::substring(from, to): characters from..to-1 (0-based)
Substring(s, from, to) == SubSeq(s, from + 1, to)

\* String::substring(from): characters from.. to the end
SubstringFrom(s, from) == SubSeq(s, from + 1, Len(s))

RECURSIVE AccDigits(_, _, _)
AccDigits(s, i, acc) ==
    IF i > Len(s) \/ s[i] \notin Digits THEN acc
    ELSE AccDigits(s, i + 1, acc * 10 + DigitVal(s[i]))

RECURSIVE SkipSpace(_, _)
SkipSpace(s, i) ==
    IF i <= Len(s) /\ IsSpace(s[i]) THEN SkipSpace(s, i + 1) ELSE i

\* an atol() that reads leading digits only, with no blanks and no sign
AtolDigitsOnly(s) == AccDigits(s, 1, 0)

\* atol(): leading whitespace, an optional sign, then the leading digits
Atol(s) ==
    LET i == SkipSpace(s, 1)
        neg == i <= Len(s) /\ s[i] = "-"
        j == IF i <= Len(s) /\ s[i] \in {"-", "+"} THEN i + 1 ELSE i
        mag == AccDigits(s, j, 0)
    IN  IF neg THEN 0 - mag ELSE mag

\* conversion of a long to the 16-bit int of the target (int x = str.toInt())
ToInt16(v) == ((v + 2^15) % 2^16) - 2^15

\* int v = str.toInt();
ToInt(s) == ToInt16(Atol(s))

\* ------------------------------------------------------------------------
\* Motor and ClassifierServo
\* ------------------------------------------------------------------------
\* the constrain(x, lo, hi) macro
Constrain(x, lo, hi) == IF x < lo THEN lo ELSE IF x > hi THEN hi ELSE x

\* a Motor::setSpeed without the constrain(): analogWrite keeps the low byte
MotorSetSpeedUnclamped(speed) == speed % 256

\* Motor::setSpeed: the value handed to analogWrite
MotorSetSpeed(speed) == Constrain(speed, 0, 255)

\* a ClassifierServo::setPosition whose case 0 lacks its break
ServoSetPositionFallsThrough(servoCode) ==
    CASE servoCode = 0 -> SERVO_POS_SQUARE
      [] servoCode = 1 -> SERVO_POS_SQUARE
      [] servoCode = 2 -> SERVO_POS_CIRCLE
      [] OTHER -> SERVO_POS_UNKNOWN

\* ClassifierServo::setPosition: the angle handed to Servo::write
ServoSetPosition(servoCode) ==
    CASE servoCode = 0 -> SERVO_POS_TRIANGLE
      [] servoCode = 1 -> SERVO_POS_SQUARE
      [] servoCode = 2 -> SERVO_POS_CIRCLE
      [] OTHER -> SERVO_POS_UNKNOWN

\* ------------------------------------------------------------------------
\* State
\* ------------------------------------------------------------------------
VARIABLES
    phase,               \* "constructed" until the sketch's setup() has run
    now,                 \* millis(): the 32-bit millisecond clock
    wire,                \* bytes sent by the host and not yet read
    inputString,         \* Communication::_inputString
    lastSerialSendTime,  \* Communication::_lastSerialSendTime
    lastHeartbeatTime,   \* Communication::_lastHeartbeatTime
    pwm,                 \* last value written to the motor PWM pin
    angle,               \* last angle written to the servo
    serialOut,           \* telemetry records printed by the latest update()
    pulsesPerRevolution, \* RpmSensor::_pulsesPerRevolution
    pulseCount,          \* RpmSensor::_pulseCount
    lastRpmTime,         \* RpmSensor::_lastRpmTime
    currentRpm,          \* RpmSensor::_currentRpm, a float written as a fraction
    attached,            \* whether countPulse is attached to the encoder pin
    rpmPc,               \* position of the main loop inside RpmSensor::update
    rpmTime,             \* the local currentTime of RpmSensor::update
    clock,               \* history: true milliseconds since power-up
    idle,                \* history: true milliseconds since the heartbeat
                         \*          reference was last set
    sinceSend,           \* history: true milliseconds since the telemetry
                         \*          timer was last set
    watch,               \* history: an observer's one-second stopwatch
    sentLines,           \* history: the number of lines the host has sent
    upd,                 \* history: the latest Communication::update call
    safeRuns,            \* history: consecutive update() calls whose check
                         \*          found the deadline passed (counted to 2)
    edges,               \* history: the number of encoder edges so far
    window,              \* history: edges delivered to countPulse and not
                         \*          yet part of an RPM sample
    missed,              \* history: edges that arrived while detached
    sample,              \* history: the latest RPM sample taken
    applied,             \* history: the latest direct actuator call
    seen,                \* history: whether a command was accepted, whether
                         \*          the clock has wrapped, true milliseconds
                         \*          since the RPM sample time and since
                         \*          RpmSensor::update last read the clock
    cycle                \* position of the main loop inside
                         \*          Communication::update, statement by statement

commVars == <<inputString, lastSerialSendTime, lastHeartbeatTime, pwm, angle, serialOut>>

rpmVars == <<pulsesPerRevolution, pulseCount, lastRpmTime, currentRpm, attached, rpmPc, rpmTime>>

histVars == <<clock, idle, sinceSend, watch, sentLines, upd, safeRuns, edges, window, missed, sample, applied>>

vars == <<phase, now, wire, commVars, rpmVars, histVars, seen, cycle>>

\* ------------------------------------------------------------------------
\* Bounds of the model
\* ------------------------------------------------------------------------
MaxClock == 2002

\* the same for the telemetry specification, whose steps are finer
TelemetryClock == 1000

\* how many lines the host sends in one behaviour
MaxLines == 2

\* the largest b of the storage patterns the initial states are drawn from
MaxFill == 255

\* how many milliseconds pass, in one behaviour, between the reads of
\* millis() inside calls of Communication::update
MaxLag == 1

\* how many encoder edges arrive in one behaviour
MaxEdges == 79

\* the same two limits for the specification of the field parser
ParseClock == 2500

ParseMaxLines == 2

\* the same two limits for the specification that takes the clock through
\* its wrap (the clock limit counts the milliseconds after the long stretch)
WrapClock == 2002

WrapMaxLines == 2

\* the same two limits for the specification that runs update() statement
\* by statement
CycleClock == 200

CycleMaxLines == 2

\* how far beyond 0..255 the speeds handed to Motor::setSpeed reach
ArgSpan == 40

\* how far around 0 the codes handed to ClassifierServo::setPosition reach
CodeSpan == 12

\* ------------------------------------------------------------------------
\* Communication
\* ------------------------------------------------------------------------
\* the Communication object together with the two actuators it drives
CommState ==
    [inputString |-> inputString,
     lastSerialSendTime |-> lastSerialSendTime,
     lastHeartbeatTime |-> lastHeartbeatTime,
     pwm |-> pwm,
     angle |-> angle,
     out |-> serialOut]

\* a processCommand that stamps the heartbeat before it tests the separator
ProcessCommandStampsFirst(s, command, t) ==
    LET cmd == Trim(command)
        separatorIndex == IndexOf(cmd, "_")
        stamped == [s EXCEPT !.lastHeartbeatTime = t]
    IN  IF separatorIndex = -1 THEN stamped
        ELSE [stamped EXCEPT !.pwm = MotorSetSpeed(ToInt(Substring(cmd, 0, separatorIndex))),
                             !.angle = ServoSetPosition(ToInt(SubstringFrom(cmd, separatorIndex + 1)))]

\* a processCommand without the early return: a line without separator is
\* read as a speed
ProcessCommandSpeedOnly(s, command, t) ==
    LET cmd == Trim(command)
        separatorIndex == IndexOf(cmd, "_")
    IN  IF separatorIndex = -1 THEN [s EXCEPT !.pwm = MotorSetSpeed(ToInt(cmd))]
        ELSE [s EXCEPT !.lastHeartbeatTime = t,
                       !.pwm = MotorSetSpeed(ToInt(Substring(cmd, 0, separatorIndex))),
                       !.angle = ServoSetPosition(ToInt(SubstringFrom(cmd, separatorIndex + 1)))]

\* a processCommand that dispatches without refreshing the heartbeat timer
ProcessCommandNoStamp(s, command, t) ==
    LET cmd == Trim(command)
        separatorIndex == IndexOf(cmd, "_")
    IN  IF separatorIndex = -1 THEN s
        ELSE [s EXCEPT !.pwm = MotorSetSpeed(ToInt(Substring(cmd, 0, separatorIndex))),
                       !.angle = ServoSetPosition(ToInt(SubstringFrom(cmd, separatorIndex + 1)))]

\* Communication::processCommand, called at millis() = t
ProcessCommand(s, command, t) ==
    LET cmd == Trim(command)
        separatorIndex == IndexOf(cmd, "_")
    IN  IF separatorIndex = -1 THEN s
        ELSE LET pwmStr == Substring(cmd, 0, separatorIndex)
                 servoStr == SubstringFrom(cmd, separatorIndex + 1)
             IN  [s EXCEPT !.lastHeartbeatTime = t,
                           !.pwm = MotorSetSpeed(ToInt(pwmStr)),
                           !.angle = ServoSetPosition(ToInt(servoStr))]

\* a handleSerial that clears the buffer only when the line held a separator
RECURSIVE HandleSerialKeepsMalformed(_, _, _)
HandleSerialKeepsMalformed(s, bytes, t) ==
    IF bytes = <<>> THEN s
    ELSE LET inChar == Head(bytes)
         IN  IF inChar = "\n"
             THEN HandleSerialKeepsMalformed(
                      IF IndexOf(Trim(s.inputString), "_") = -1 THEN s
                      ELSE [ProcessCommand(s, s.inputString, t) EXCEPT !.inputString = <<>>],
                      Tail(bytes), t)
             ELSE HandleSerialKeepsMalformed([s EXCEPT !.inputString = Append(@, inChar)],
                                             Tail(bytes), t)

\* Communication::handleSerial reading the available bytes
RECURSIVE HandleSerial(_, _, _)
HandleSerial(s, bytes, t) ==
    IF bytes = <<>> THEN s
    ELSE LET inChar == Head(bytes)
         IN  IF inChar = "\n"
             THEN HandleSerial([ProcessCommand(s, s.inputString, t)
                                   EXCEPT !.inputString = <<>>],
                               Tail(bytes), t)
             ELSE HandleSerial([s EXCEPT !.inputString = Append(@, inChar)],
                               Tail(bytes), t)

\* (int)rpm for a non-negative value: the fraction is dropped and the result
\* is narrowed to the 16-bit int of the board
RpmToInt(rpm) == ToInt16(rpm.num \div rpm.den)

\* a sendDataToPC that forgets to restart its timer
SendDataToPCNoStamp(s, rpm, obstacleState, t) ==
    IF U32Leq(U32(SERIAL_SEND_INTERVAL_MS), U32Sub(t, s.lastSerialSendTime))
    THEN [s EXCEPT !.out = Append(@, [rpm |-> RpmToInt(rpm), obstacle |-> obstacleState])]
    ELSE s

\* Communication::sendDataToPC, called at millis() = t
SendDataToPC(s, rpm, obstacleState, t) ==
    IF U32Leq(U32(SERIAL_SEND_INTERVAL_MS), U32Sub(t, s.lastSerialSendTime))
    THEN [s EXCEPT !.out = Append(@, [rpm |-> RpmToInt(rpm), obstacle |-> obstacleState]),
                   !.lastSerialSendTime = t]
    ELSE s

\* a _checkHeartbeat that fires at the deadline itself (>= for >)
CheckHeartbeatAtDeadline(s, t) ==
    IF U32Leq(U32(HEARTBEAT_TIMEOUT_MS), U32Sub(t, s.lastHeartbeatTime))
    THEN [s EXCEPT !.pwm = MotorSetSpeed(0), !.angle = ServoSetPosition(9)]
    ELSE s

\* a _checkHeartbeat that restarts the heartbeat timer when it fires
CheckHeartbeatRestartsTimer(s, t) ==
    IF U32Less(U32(HEARTBEAT_TIMEOUT_MS), U32Sub(t, s.lastHeartbeatTime))
    THEN [s EXCEPT !.pwm = MotorSetSpeed(0), !.angle = ServoSetPosition(9),
                   !.lastHeartbeatTime = t]
    ELSE s

\* a _checkHeartbeat that clears the heartbeat timer when it fires
CheckHeartbeatClearsTimer(s, t) ==
    IF U32Less(U32(HEARTBEAT_TIMEOUT_MS), U32Sub(t, s.lastHeartbeatTime))
    THEN [s EXCEPT !.pwm = MotorSetSpeed(0), !.angle = ServoSetPosition(9),
                   !.lastHeartbeatTime = U32Zero]
    ELSE s

\* a _checkHeartbeat that compares the clock with the deadline, last + 2000,
\* instead of the elapsed time with the timeout
CheckHeartbeatComparesDeadline(s, t) ==
    IF U32Less(U32Add(s.lastHeartbeatTime, HEARTBEAT_TIMEOUT_MS), t)
    THEN [s EXCEPT !.pwm = MotorSetSpeed(0), !.angle = ServoSetPosition(9)]
    ELSE s

\* Communication::_checkHeartbeat, called at millis() = t
CheckHeartbeat(s, t) ==
    IF U32Less(U32(HEARTBEAT_TIMEOUT_MS), U32Sub(t, s.lastHeartbeatTime))
    THEN [s EXCEPT !.pwm = MotorSetSpeed(0), !.angle = ServoSetPosition(9)]
    ELSE s

\* ------------------------------------------------------------------------
\* Environment: the host's lines and the passing of time
\* ------------------------------------------------------------------------
NL == "\n"

HostLines ==
    { <<"2", "0", "0", "_", "1">>,
      <<"a", "b", "c">>,
      <<"1", "_", "2", "_", "3">>,
      <<" ", "7", "_", "2", "\r">> }

TickSteps == {1000, 1001}

\* the milliseconds that pass between two reads of millis() in one call of
\* Communication::update
Lags == {0, 1}

TelemetrySteps == {50, 100}

\* lines for the field parser: plain decimal fields, a speed beyond the
\* 16-bit int, fields with letters, signs and inner blanks, empty fields, a
\* line without separator, and a line led by a vertical tab
ParseLines ==
    { <<"2", "0", "0", "_", "1">>,
      <<"3", "0", "0", "_", "1">>,
      <<"1", "5", "0", "_", "1">>,
      <<"a", "b", "c">>,
      <<"4", "0", "0", "0", "0", "_", "1">>,
      <<"a", "b", "c", "_", "x">>,
      <<"_">>,
      <<"1", "2", "a", "b", "_", "1", "x">>,
      <<"1", "_", "-", "1">>,
      <<"1", "_", " ", "2">>,
      <<VT, "2", "0", "0", "_", VT, "1">>,
      <<"-", "5", "_", "9">>,
      <<>> }

ParseSteps == {2500}

\* lines for the specification of the clock wrap
WrapLines == { <<"2", "0", "0", "_", "1">>, <<"a", "b", "c">> }

\* the clock's steps there; the odd millisecond comes from the lead and from
\* the time that passes inside a call
WrapSteps == {1000}

\* how many milliseconds before its wrap a long stretch leaves the clock
WrapLeads == {1000, 1001}

\* stands for a true elapsed time of more than 2^30 and less than 2^32 ms
Long == 2^30

\* lines and steps for the specification that runs update() statement by
\* statement
CycleLines == { <<"2", "0", "0", "_", "1">>, <<"a", "b", "c">> }

CycleSteps == {100}

RpmSteps == {999, 1000}

PulseBursts == {7, 16, 63}

PprChoices == {ENCODER_BASE_CPR, ENCODER_PULSES_PER_REVOLUTION}

\* ------------------------------------------------------------------------
\* History helpers (they do not model code)
\* ------------------------------------------------------------------------
\* the lines completed when `bytes` are read into a buffer holding `buf`
RECURSIVE CompletedLines(_, _)
CompletedLines(buf, bytes) ==
    IF bytes = <<>> THEN <<>>
    ELSE IF Head(bytes) = NL THEN <<buf>> \o CompletedLines(<<>>, Tail(bytes))
    ELSE CompletedLines(Append(buf, Head(bytes)), Tail(bytes))

\* the number of separator characters in a line
SeparatorCount(line) == Cardinality({i \in 1..Len(line) : line[i] = "_"})

NoUpd == [done |-> FALSE]

WatchOff == [on |-> FALSE, age |-> 0, count |-> 0]

NoSample == [done |-> FALSE, n |-> 0]

NoCall == [op |-> "none"]

Undriven == 0 - 1

ZeroRpm == [num |-> 0, den |-> 1]

NothingSeen ==
    [command |-> FALSE, wrap |-> FALSE, sinceSample |-> 0, sinceRead |-> 0, lag |-> 0]

\* no call of Communication::update is under way
NoCycle == [pc |-> "idle", checks |-> 0, read |-> <<>>]

\* ------------------------------------------------------------------------
\* Initial state: the objects as their constructors leave them
\* ------------------------------------------------------------------------
\* _lastHeartbeatTime is not written by the constructor: it holds whatever
\* its storage held, any unsigned long
UninitializedTimes == U32Values

InitComm ==
    /\ phase = "constructed"
    /\ now = U32Zero
    /\ wire = <<>>
    /\ inputString = <<>>
    /\ lastSerialSendTime = U32Zero
    /\ lastHeartbeatTime \in UninitializedTimes
    /\ pwm = Undriven
    /\ angle = Undriven
    /\ serialOut = <<>>
    /\ cycle = NoCycle

InitRpm(ppr) ==
    /\ pulsesPerRevolution = ppr
    /\ pulseCount = 0
    /\ lastRpmTime = U32Zero
    /\ currentRpm = ZeroRpm
    /\ attached = FALSE
    /\ rpmPc = "idle"
    /\ rpmTime = U32Zero

InitHist ==
    /\ clock = 0
    /\ idle = 0
    /\ sinceSend = 0
    /\ watch = WatchOff
    /\ sentLines = 0
    /\ upd = NoUpd
    /\ safeRuns = 0
    /\ edges = 0
    /\ window = 0
    /\ missed = 0
    /\ sample = NoSample
    /\ applied = NoCall
    /\ seen = NothingSeen

Init == InitComm /\ InitRpm(ENCODER_PULSES_PER_REVOLUTION) /\ InitHist

\* The behaviours explored start from a bounded part of the initial states:
\* the unset _lastHeartbeatTime holds the 16-bit pattern 257 * b in both
\* halves, which for b <= 255 is storage filled with the byte b
StorageSample ==
    {[hi |-> (257 * b) % Half, lo |-> (257 * b) % Half] : b \in 0..MaxFill}

InitSampled == lastHeartbeatTime \in StorageSample /\ Init

\* ------------------------------------------------------------------------
\* Actions
\* ------------------------------------------------------------------------
\* a setup in which Motor::setup does not write the PWM pin low
SetupLeavesMotor ==
    /\ phase = "constructed"
    /\ phase' = "running"
    /\ lastHeartbeatTime' = now
    /\ angle' = SERVO_POS_UNKNOWN
    /\ attached' = TRUE
    /\ idle' = 0
    /\ UNCHANGED <<now, wire, inputString, lastSerialSendTime, pwm, serialOut>>
    /\ UNCHANGED <<pulsesPerRevolution, pulseCount, lastRpmTime, currentRpm, rpmPc, rpmTime>>
    /\ UNCHANGED <<clock, sinceSend, watch, sentLines, upd, safeRuns, edges, window, missed, sample, applied>>
    /\ UNCHANGED <<seen, cycle>>

\* the setup() methods: Communication, Motor, ClassifierServo, RpmSensor
Setup ==
    /\ phase = "constructed"
    /\ phase' = "running"
    /\ lastHeartbeatTime' = now
    /\ pwm' = 0
    /\ angle' = SERVO_POS_UNKNOWN
    /\ attached' = TRUE
    /\ idle' = 0
    /\ UNCHANGED <<now, wire, inputString, lastSerialSendTime, serialOut>>
    /\ UNCHANGED <<pulsesPerRevolution, pulseCount, lastRpmTime, currentRpm, rpmPc, rpmTime>>
    /\ UNCHANGED <<clock, sinceSend, watch, sentLines, upd, safeRuns, edges, window, missed, sample, applied>>
    /\ UNCHANGED <<seen, cycle>>

\* d milliseconds pass (the model stops the clock at `limit`)
Tick(d, limit) ==
    /\ phase = "running"
    /\ clock + d <= limit
    /\ now' = U32Add(now, d)
    /\ clock' = clock + d
    /\ idle' = idle + d
    /\ sinceSend' = sinceSend + d
    /\ watch' = IF watch.on /\ watch.age + d < 1000
                THEN [watch EXCEPT !.age = @ + d]
                ELSE WatchOff
    /\ upd' = NoUpd
    /\ UNCHANGED <<phase, wire, commVars, rpmVars, sentLines, safeRuns, edges, window, missed, sample, applied>>
    /\ seen' = [seen EXCEPT !.wrap = @ \/ U32Less(U32Add(now, d), now),
                        !.sinceSample = @ + d,
                        !.sinceRead = @ + d]
    /\ UNCHANGED cycle

\* a long stretch passes between two passes of the main loop: the clock,
\* still in its first 65 seconds, moves on to `lead` ms before its wrap
Elapse(lead) ==
    /\ phase = "running"
    /\ rpmPc = "idle"
    /\ cycle.pc = "idle"
    /\ ~seen.wrap
    /\ now.hi = 0
    /\ now' = [hi |-> Half - 1, lo |-> Half - lead]
    /\ idle' = Long
    /\ sinceSend' = Long
    /\ seen' = [seen EXCEPT !.sinceSample = Long, !.sinceRead = Long]
    /\ watch' = WatchOff
    /\ upd' = NoUpd
    /\ UNCHANGED <<phase, wire, commVars, rpmVars, clock, sentLines, safeRuns, edges, window, missed, sample, applied>>
    /\ UNCHANGED cycle

\* the host sends one newline-terminated line (at most `limit` of them)
HostSend(line, limit) ==
    /\ phase = "running"
    /\ wire = <<>>
    /\ sentLines < limit
    /\ sentLines' = sentLines + 1
    /\ wire' = Append(line, NL)
    /\ upd' = NoUpd
    /\ UNCHANGED <<phase, now, commVars, rpmVars>>
    /\ UNCHANGED <<clock, idle, sinceSend, watch, safeRuns, edges, window, missed, sample, applied>>
    /\ UNCHANGED <<seen, cycle>>

\* a stopwatch after d more milliseconds
Aged(w, d) ==
    IF w.on /\ w.age + d < 1000 THEN [w EXCEPT !.age = @ + d] ELSE WatchOff

\* one call of Communication::update(rpm, obstacleState) while the first k
\* bytes on the wire are available. Each of the three statements reads
\* millis() for itself: processCommand at `now`, sendDataToPC lagSend ms
\* later, _checkHeartbeat lagCheck ms after that (the timer interrupt runs
\* while the call executes and while Serial.print waits for the transmitter)
Update(k, obstacleState, lagSend, lagCheck) ==
    /\ phase = "running"
    /\ rpmPc = "idle"
    /\ cycle.pc = "idle"
    /\ seen.lag + lagSend + lagCheck <= MaxLag
    /\ LET bytes == SubSeq(wire, 1, k)
           tSend == U32Add(now, lagSend)
           tCheck == U32Add(tSend, lagCheck)
           lag == lagSend + lagCheck
           s0 == [CommState EXCEPT !.out = <<>>]
           s1 == HandleSerial(s0, bytes, now)
           s2 == SendDataToPC(s1, currentRpm, obstacleState, tSend)
           s3 == CheckHeartbeat(s2, tCheck)
           lines == CompletedLines(inputString, bytes)
           refreshed == \E i \in 1..Len(lines) : SeparatorCount(lines[i]) > 0
           idleAtCheck == (IF refreshed THEN 0 ELSE idle) + lag
           emitted == Len(s3.out)
           atSend == Aged(watch, lagSend)
       IN  /\ wire' = SubSeq(wire, k + 1, Len(wire))
           /\ now' = tCheck
           /\ clock' = clock + lag
           /\ inputString' = s3.inputString
           /\ lastSerialSendTime' = s3.lastSerialSendTime
           /\ lastHeartbeatTime' = s3.lastHeartbeatTime
           /\ pwm' = s3.pwm
           /\ angle' = s3.angle
           /\ serialOut' = s3.out
           /\ idle' = idleAtCheck
           /\ safeRuns' = IF idleAtCheck > HEARTBEAT_TIMEOUT_MS
                          THEN (IF safeRuns < 2 THEN safeRuns + 1 ELSE 2)
                          ELSE 0
           /\ sinceSend' = IF emitted > 0 THEN lagCheck ELSE sinceSend + lag
           /\ watch' = Aged(IF atSend.on THEN [atSend EXCEPT !.count = @ + emitted]
                                         ELSE atSend,
                            lagCheck)
           /\ upd' = [done |-> TRUE, t |-> now, tSend |-> tSend, tCheck |-> tCheck,
                      lines |-> lines,
                      pre |-> s0, afterSerial |-> s1, afterSend |-> s2,
                      idle |-> idleAtCheck, sinceSend |-> sinceSend + lagSend]
           /\ seen' = [seen EXCEPT !.command = @ \/ refreshed,
                                   !.wrap = @ \/ U32Less(tCheck, now),
                                   !.sinceSample = @ + lag,
                                   !.sinceRead = @ + lag,
                                   !.lag = @ + lag]
    /\ UNCHANGED <<phase, rpmVars, sentLines, edges, window, missed, sample, applied>>
    /\ UNCHANGED cycle

\* the host sends one more line, whatever is still on the wire
HostSendMore(line, limit) ==
    /\ phase = "running"
    /\ sentLines < limit
    /\ sentLines' = sentLines + 1
    /\ wire' = wire \o Append(line, NL)
    /\ UNCHANGED <<phase, now, commVars, rpmVars>>
    /\ UNCHANGED <<clock, idle, sinceSend, watch, upd, safeRuns, edges, window, missed, sample, applied>>
    /\ UNCHANGED <<seen, cycle>>

\* Communication::update is called
CycleBegin ==
    /\ phase = "running"
    /\ rpmPc = "idle"
    /\ cycle.pc = "idle"
    /\ cycle' = [pc |-> "serial", checks |-> 0, read |-> <<>>,
                 pre |-> [CommState EXCEPT !.out = <<>>]]
    /\ serialOut' = <<>>
    /\ upd' = NoUpd
    /\ UNCHANGED <<phase, now, wire, inputString, lastSerialSendTime, lastHeartbeatTime, pwm, angle>>
    /\ UNCHANGED rpmVars
    /\ UNCHANGED <<clock, idle, sinceSend, watch, sentLines, safeRuns, edges, window, missed, sample, applied, seen>>

\* a SerialEnd that returns from update() when the call has read no byte
SerialEndReturnsWhenQuiet ==
    /\ cycle.pc = "serial"
    /\ wire = <<>>
    /\ cycle' = IF cycle.read = <<>>
                THEN [pc |-> "idle", checks |-> cycle.checks, read |-> cycle.read]
                ELSE [cycle EXCEPT !.pc = "send"]
    /\ UNCHANGED <<phase, now, wire, commVars, rpmVars, histVars, seen>>

\* one pass of the while loop of handleSerial: Serial.available() is
\* non-zero, one byte is read and handled
SerialRead ==
    /\ cycle.pc = "serial"
    /\ wire # <<>>
    /\ wire' = Tail(wire)
    /\ cycle' = [cycle EXCEPT !.read = Append(@, Head(wire))]
    /\ \E s \in {HandleSerial(CommState, <<Head(wire)>>, now)} :
           /\ inputString' = s.inputString
           /\ lastHeartbeatTime' = s.lastHeartbeatTime
           /\ pwm' = s.pwm
           /\ angle' = s.angle
    /\ \E accepted \in {Head(wire) = NL /\ SeparatorCount(inputString) > 0} :
           /\ idle' = IF accepted THEN 0 ELSE idle
           /\ seen' = [seen EXCEPT !.command = @ \/ accepted]
    /\ UNCHANGED <<phase, now, lastSerialSendTime, serialOut>>
    /\ UNCHANGED rpmVars
    /\ UNCHANGED <<clock, sinceSend, watch, sentLines, upd, safeRuns, edges, window, missed, sample, applied>>

\* the while loop of handleSerial ends: Serial.available() is 0
SerialEnd ==
    /\ cycle.pc = "serial"
    /\ wire = <<>>
    /\ cycle' = [cycle EXCEPT !.pc = "send"]
    /\ UNCHANGED <<phase, now, wire, commVars, rpmVars, histVars, seen>>

\* sendDataToPC(rpm, obstacleState);
CycleSend(obstacleState) ==
    /\ cycle.pc = "send"
    /\ LET s == SendDataToPC(CommState, currentRpm, obstacleState, now)
       IN  /\ serialOut' = s.out
           /\ lastSerialSendTime' = s.lastSerialSendTime
           /\ sinceSend' = IF s.out # <<>> THEN 0 ELSE sinceSend
    /\ cycle' = [cycle EXCEPT !.pc = "check"]
    /\ UNCHANGED <<phase, now, wire, inputString, lastHeartbeatTime, pwm, angle>>
    /\ UNCHANGED rpmVars
    /\ UNCHANGED <<clock, idle, watch, sentLines, upd, safeRuns, edges, window, missed, sample, applied, seen>>

\* _checkHeartbeat(); and the return from update()
CycleCheck ==
    /\ cycle.pc = "check"
    /\ LET s == CheckHeartbeat(CommState, now)
       IN  /\ pwm' = s.pwm
           /\ angle' = s.angle
    /\ cycle' = [pc |-> "idle", checks |-> cycle.checks + 1, read |-> cycle.read]
    /\ safeRuns' = IF idle > HEARTBEAT_TIMEOUT_MS
                   THEN (IF safeRuns < 2 THEN safeRuns + 1 ELSE 2)
                   ELSE 0
    /\ UNCHANGED <<phase, now, wire, inputString, lastSerialSendTime, lastHeartbeatTime, serialOut>>
    /\ UNCHANGED rpmVars
    /\ UNCHANGED <<clock, idle, sinceSend, watch, sentLines, upd, edges, window, missed, sample, applied, seen>>

\* an observer starts a one-second stopwatch at a telemetry record
StartWatch ==
    /\ upd.done
    /\ serialOut # <<>>
    /\ ~watch.on
    /\ watch' = [on |-> TRUE, age |-> 0, count |-> Len(serialOut)]
    /\ UNCHANGED <<phase, now, wire, commVars, rpmVars>>
    /\ UNCHANGED <<clock, idle, sinceSend, sentLines, upd, safeRuns, edges, window, missed, sample, applied>>
    /\ UNCHANGED <<seen, cycle>>

\* ------------------------------------------------------------------------
\* RpmSensor
\* ------------------------------------------------------------------------
RECURSIVE GCD(_, _)
GCD(a, b) == IF b = 0 THEN a ELSE GCD(b, a % b)

\* the exact fraction a / b in lowest terms
Fraction(a, b) == LET g == GCD(a, b) IN [num |-> a \div g, den |-> b \div g]

\* A float has FLT_MANT_DIG = 24 significant bits. A positive float is
\* written [m, e] for m / 2^e with 2^23 <= m <= 2^24, zero is [0, 0].
FloatBits == 24

\* m or m + 1: round to nearest, ties to even, when 2 * rest / unit is the
\* fraction of a unit that m leaves out
RoundHalfEven(m, rest, unit) ==
    IF 2 * rest > unit \/ (2 * rest = unit /\ m % 2 = 1) THEN m + 1 ELSE m

\* binary long division: quotient bits of rest / b are shifted into m until m
\* has 24 bits; a / b = (m + rest / b) / 2^e throughout
RECURSIVE DivBits(_, _, _, _)
DivBits(m, e, rest, b) ==
    IF m >= 2^(FloatBits - 1)
    THEN [m |-> m, e |-> e, rest |-> rest]
    ELSE LET bit == IF 2 * rest >= b THEN 1 ELSE 0
         IN  DivBits(2 * m + bit, e + 1, 2 * rest - bit * b, b)

\* how many low bits p has beyond 24
RECURSIVE ExtraBits(_)
ExtraBits(p) == IF p < 2^FloatBits THEN 0 ELSE 1 + ExtraBits(p \div 2)

\* the conversion of the unsigned long n to float, for 0 <= n < 2^31: counts
\* of 2^24 and more are rounded to 24 bits
ToFloat(n) ==
    LET k == ExtraBits(n)
    IN  [m |-> RoundHalfEven(n \div 2^k, n % 2^k, 2^k), e |-> 0 - k]

\* a / (float)b in single precision, for integers 0 <= a < 2^31 and
\* 0 < b < 2^15: a is the left operand of a float division, so it is
\* converted to float first, and the quotient of the two floats is rounded
FloatDiv(a, b) ==
    IF a = 0 THEN [m |-> 0, e |-> 0]
    ELSE LET x == ToFloat(a)
             q == DivBits(x.m \div b, 0, x.m % b, b)
         IN  [m |-> RoundHalfEven(q.m, q.rest, b), e |-> q.e + x.e]

\* x * c in single precision, for a float x and an integer 0 < c < 2^7 (the
\* product of a float and 60.0 has at most 30 bits, so rounding it once is
\* the same for a 32-bit and a 64-bit double)
FloatTimes(x, c) ==
    LET p == x.m * c
        k == ExtraBits(p)
    IN  [m |-> RoundHalfEven(p \div 2^k, p % 2^k, 2^k), e |-> x.e - k]

\* the float [m, e] as a fraction num / den in lowest terms (den a power of
\* two), for values below 2^31 and not below 2^-6
RECURSIVE Dyadic(_, _)
Dyadic(m, e) ==
    IF m = 0 THEN [num |-> 0, den |-> 1]
    ELSE IF e < 0 THEN Dyadic(2 * m, e + 1)
    ELSE IF e > 0 /\ m % 2 = 0 THEN Dyadic(m \div 2, e - 1)
    ELSE [num |-> m, den |-> 2^e]

\* the same expression without the (float) cast: an integer division
RpmFromPulsesIntegerDivision(n, ppr) == Fraction((n \div ppr) * 60, 1)

\* (_pulseCount / (float)_pulsesPerRevolution) * 60.0, for a result below
\* 2^31: the count is converted to float, the quotient is rounded to a
\* float, and so is its product with 60
RpmFromPulses(n, ppr) ==
    LET rpm == FloatTimes(FloatDiv(n, ppr), 60) IN Dyadic(rpm.m, rpm.e)

\* RpmSensor::countPulse, the interrupt service routine
CountPulse(count) == count + 1

\* an update without the elapsed-time test: every call samples
RpmBeginAlways ==
    /\ phase = "running"
    /\ rpmPc = "idle"
    /\ rpmTime' = now
    /\ attached' = FALSE
    /\ rpmPc' = "compute"
    /\ upd' = NoUpd
    /\ UNCHANGED <<phase, now, wire, commVars>>
    /\ UNCHANGED <<pulsesPerRevolution, pulseCount, lastRpmTime, currentRpm>>
    /\ UNCHANGED <<clock, idle, sinceSend, watch, sentLines, safeRuns, edges, window, missed, sample, applied>>
    /\ seen' = [seen EXCEPT !.sinceRead = 0]
    /\ UNCHANGED cycle

\* an update that leaves the interrupt attached while it reads and resets
RpmBeginNoDetach ==
    /\ phase = "running"
    /\ rpmPc = "idle"
    /\ rpmTime' = now
    /\ IF U32Leq(U32(1000), U32Sub(now, lastRpmTime))
       THEN rpmPc' = "compute"
       ELSE UNCHANGED rpmPc
    /\ upd' = NoUpd
    /\ UNCHANGED <<phase, now, wire, commVars>>
    /\ UNCHANGED <<pulsesPerRevolution, pulseCount, lastRpmTime, currentRpm, attached>>
    /\ UNCHANGED <<clock, idle, sinceSend, watch, sentLines, safeRuns, edges, window, missed, sample, applied>>
    /\ seen' = [seen EXCEPT !.sinceRead = 0]
    /\ UNCHANGED cycle

\* RpmSensor::update up to detachInterrupt: the clock is read and, when a
\* sample is due, the interrupt is detached
RpmBegin ==
    /\ phase = "running"
    /\ rpmPc = "idle"
    /\ rpmTime' = now
    /\ IF U32Leq(U32(1000), U32Sub(now, lastRpmTime))
       THEN attached' = FALSE /\ rpmPc' = "compute"
       ELSE UNCHANGED <<attached, rpmPc>>
    /\ upd' = NoUpd
    /\ UNCHANGED <<phase, now, wire, commVars>>
    /\ UNCHANGED <<pulsesPerRevolution, pulseCount, lastRpmTime, currentRpm>>
    /\ UNCHANGED <<clock, idle, sinceSend, watch, sentLines, safeRuns, edges, window, missed, sample, applied>>
    /\ seen' = [seen EXCEPT !.sinceRead = 0]
    /\ UNCHANGED cycle

\* _currentRpm = (_pulseCount / (float)_pulsesPerRevolution) * 60.0;
RpmCompute ==
    /\ rpmPc = "compute"
    /\ currentRpm' = RpmFromPulses(pulseCount, pulsesPerRevolution)
    /\ rpmPc' = "reset"
    /\ sample' = [done |-> TRUE, n |-> window]
    /\ window' = window - pulseCount
    /\ UNCHANGED <<phase, now, wire, commVars>>
    /\ UNCHANGED <<pulsesPerRevolution, pulseCount, lastRpmTime, attached, rpmTime>>
    /\ UNCHANGED <<clock, idle, sinceSend, watch, sentLines, upd, safeRuns, edges, missed, applied>>
    /\ UNCHANGED <<seen, cycle>>

\* _pulseCount = 0;
RpmReset ==
    /\ rpmPc = "reset"
    /\ pulseCount' = 0
    /\ rpmPc' = "attach"
    /\ UNCHANGED <<phase, now, wire, commVars>>
    /\ UNCHANGED <<pulsesPerRevolution, lastRpmTime, currentRpm, attached, rpmTime>>
    /\ UNCHANGED histVars
    /\ UNCHANGED <<seen, cycle>>

\* _lastRpmTime = currentTime; attachInterrupt(...);
RpmAttach ==
    /\ rpmPc = "attach"
    /\ lastRpmTime' = rpmTime
    /\ attached' = TRUE
    /\ rpmPc' = "idle"
    /\ UNCHANGED <<phase, now, wire, commVars>>
    /\ UNCHANGED <<pulsesPerRevolution, pulseCount, currentRpm, rpmTime>>
    /\ UNCHANGED histVars
    /\ seen' = [seen EXCEPT !.sinceSample = seen.sinceRead]
    /\ UNCHANGED cycle

RECURSIVE Times(_, _)
Times(k, count) == IF k = 0 THEN count ELSE Times(k - 1, CountPulse(count))

\* k rising edges on the encoder pin, at any point of the main loop: each
\* runs countPulse while it is attached and is not seen while it is detached
Pulse(k) ==
    /\ phase = "running"
    /\ edges + k <= MaxEdges
    /\ edges' = edges + k
    /\ IF attached
       THEN /\ pulseCount' = Times(k, pulseCount)
            /\ window' = window + k
            /\ missed' = missed
       ELSE /\ missed' = missed + k
            /\ UNCHANGED <<pulseCount, window>>
    /\ UNCHANGED <<phase, now, wire, commVars>>
    /\ UNCHANGED <<pulsesPerRevolution, lastRpmTime, currentRpm, attached, rpmPc, rpmTime>>
    /\ UNCHANGED <<clock, idle, sinceSend, watch, sentLines, upd, safeRuns, sample, applied>>
    /\ UNCHANGED <<seen, cycle>>

\* ------------------------------------------------------------------------
\* Direct calls of the two actuator methods
\* ------------------------------------------------------------------------
IntMin == 0 - 2^15

IntMax == 2^15 - 1

SpeedArgs == ((0 - ArgSpan)..(255 + ArgSpan)) \cup {IntMin, IntMax}

CodeArgs == ((0 - CodeSpan)..CodeSpan) \cup {IntMin, IntMax}

\* motor.setSpeed(speed)
SetSpeedCall(speed) ==
    /\ phase = "running"
    /\ pwm' = MotorSetSpeed(speed)
    /\ applied' = [op |-> "setSpeed", arg |-> speed]
    /\ UNCHANGED <<phase, now, wire, inputString, lastSerialSendTime, lastHeartbeatTime, angle, serialOut>>
    /\ UNCHANGED rpmVars
    /\ UNCHANGED <<clock, idle, sinceSend, watch, sentLines, upd, safeRuns, edges, window, missed, sample>>
    /\ UNCHANGED <<seen, cycle>>

\* servo.setPosition(servoCode)
SetPositionCall(servoCode) ==
    /\ phase = "running"
    /\ angle' = ServoSetPosition(servoCode)
    /\ applied' = [op |-> "setPosition", arg |-> servoCode]
    /\ UNCHANGED <<phase, now, wire, inputString, lastSerialSendTime, lastHeartbeatTime, pwm, serialOut>>
    /\ UNCHANGED rpmVars
    /\ UNCHANGED <<clock, idle, sinceSend, watch, sentLines, upd, safeRuns, edges, window, missed, sample>>
    /\ UNCHANGED <<seen, cycle>>

\* ------------------------------------------------------------------------
\* Specifications
\* ------------------------------------------------------------------------
\* the command channel and its watchdog
Next ==
    \/ Setup
    \/ \E d \in TickSteps : Tick(d, MaxClock)
    \/ \E line \in HostLines : HostSend(line, MaxLines)
    \/ \E k \in 0..Len(wire) :
          \E lagSend \in Lags : \E lagCheck \in Lags : Update(k, 1, lagSend, lagCheck)

Spec == InitSampled /\ [][Next]_vars

\* the telemetry timer, watched over one-second spans
NextTelemetry ==
    \/ Setup
    \/ \E d \in TelemetrySteps : Tick(d, TelemetryClock)
    \/ \E lagSend \in Lags : \E lagCheck \in Lags : Update(0, 1, lagSend, lagCheck)
    \/ StartWatch

SpecTelemetry == InitSampled /\ [][NextTelemetry]_vars

\* the RPM sensor with its interrupt
InitSensor == InitComm /\ (\E ppr \in PprChoices : InitRpm(ppr)) /\ InitHist

InitSensorSampled == lastHeartbeatTime \in StorageSample /\ InitSensor

NextRpm ==
    \/ Setup
    \/ \E d \in RpmSteps : Tick(d, MaxClock)
    \/ \E k \in PulseBursts : Pulse(k)
    \/ RpmBegin
    \/ RpmCompute
    \/ RpmReset
    \/ RpmAttach

SpecRpm == InitSensorSampled /\ [][NextRpm]_vars

\* the field parser: whole lines, one cycle each
NextParse ==
    \/ Setup
    \/ \E d \in ParseSteps : Tick(d, ParseClock)
    \/ \E line \in ParseLines : HostSend(line, ParseMaxLines)
    \/ \E k \in {0, Len(wire)} :
          \E lagSend \in Lags : \E lagCheck \in Lags : Update(k, 0, lagSend, lagCheck)

SpecParse == InitSampled /\ [][NextParse]_vars

\* the three timers while the clock goes through its wrap
NextWrap ==
    \/ Setup
    \/ \E lead \in WrapLeads : Elapse(lead)
    \/ \E d \in WrapSteps : Tick(d, WrapClock)
    \/ \E line \in WrapLines : HostSend(line, WrapMaxLines)
    \/ \E k \in {0, Len(wire)} :
          \E lagSend \in Lags : \E lagCheck \in Lags : Update(k, 0, lagSend, lagCheck)
    \/ RpmBegin
    \/ RpmCompute
    \/ RpmReset
    \/ RpmAttach

SpecWrap == InitSampled /\ [][NextWrap]_vars

\* update() statement by statement, the host sending while it runs
CycleStep ==
    \/ SerialRead
    \/ SerialEnd
    \/ CycleSend(0)
    \/ CycleCheck

NextCycle ==
    \/ Setup
    \/ \E d \in CycleSteps : Tick(d, CycleClock)
    \/ \E line \in CycleLines : HostSendMore(line, CycleMaxLines)
    \/ CycleBegin
    \/ CycleStep

\* the processor keeps executing a call of update() that has begun
SpecCycle == InitSampled /\ [][NextCycle]_vars /\ WF_vars(CycleStep)

\* the actuator methods on their own
NextActuators ==
    \/ Setup
    \/ \E speed \in SpeedArgs : SetSpeedCall(speed)
    \/ \E code \in CodeArgs : SetPositionCall(code)

SpecActuators == InitSampled /\ [][NextActuators]_vars


\* ------------------------------------------------------------------------
\* Properties
\* ------------------------------------------------------------------------
Abc == <<"a", "b", "c">>

Cmd200 == <<"2", "0", "0", "_", "1">>

\* C1: at every heartbeat check the elapsed time now - lastHeartbeatTime is
\* the true time since the reference was set; if it exceeds 2000 ms the check
\* leaves motor speed 0 and the servo at the UNKNOWN position, and if it is
\* at most 2000 ms (2000 included) the check leaves both outputs as they were.
C1_HeartbeatCheck ==
    upd.done =>
        /\ U32Sub(upd.tCheck, upd.afterSend.lastHeartbeatTime) = U32(upd.idle)
        /\ IF upd.idle > 2000
           THEN pwm = 0 /\ angle = 0
           ELSE pwm = upd.afterSend.pwm /\ angle = upd.afterSend.angle

\* a check past the deadline that found the motor running and the servo away
\* from home, and stopped both; the deadline passed between the telemetry
\* step of the call and its check
C1_Witness ==
    /\ upd.done
    /\ upd.idle = 2001
    /\ upd.tCheck # upd.tSend
    /\ upd.afterSend.pwm = 200
    /\ upd.afterSend.angle = 90
    /\ pwm = 0
    /\ angle = 0

\* C2: once a cycle has ended with the deadline passed, and until a command
\* line is accepted, motor speed is 0 and the servo is at UNKNOWN in every
\* state; checking again changes nothing, and the check of each such cycle
\* left the heartbeat timestamp, the input buffer, the telemetry timer and
\* the telemetry output as they were.
C2_SafeStateHolds ==
    safeRuns >= 1 =>
        /\ pwm = 0
        /\ angle = 0
        /\ CheckHeartbeat(CommState, now) = CommState
        /\ upd.done =>
            /\ inputString = upd.afterSend.inputString
            /\ lastHeartbeatTime = upd.afterSend.lastHeartbeatTime
            /\ lastSerialSendTime = upd.afterSend.lastSerialSendTime
            /\ serialOut = upd.afterSend.out

\* a second cycle in a row past the deadline, one that read a line without
\* separator
C2_Witness ==
    /\ safeRuns = 2
    /\ upd.done
    /\ upd.lines = <<Abc>>
    /\ pwm = 0
    /\ angle = 0

C4_NoSeparatorDropped ==
    (/\ upd.done
     /\ upd.lines # <<>>
     /\ \A i \in 1..Len(upd.lines) : SeparatorCount(upd.lines[i]) = 0)
    => /\ upd.afterSerial.pwm = upd.pre.pwm
       /\ upd.afterSerial.angle = upd.pre.angle
       /\ upd.afterSerial.lastHeartbeatTime = upd.pre.lastHeartbeatTime
       /\ upd.afterSerial.out = <<>>

\* "abc" read while the motor runs at 200 and the reference is older than
\* the call
C4_Witness ==
    /\ upd.done
    /\ upd.lines = <<Abc>>
    /\ upd.pre.pwm = 200
    /\ upd.afterSerial.pwm = 200
    /\ upd.pre.lastHeartbeatTime # upd.t

\* C5: completing lines with more than one separator changes neither the
\* motor output, nor the servo output, nor the heartbeat timestamp.
C5_MultiSeparatorRejected ==
    (/\ upd.done
     /\ upd.lines # <<>>
     /\ \A i \in 1..Len(upd.lines) : SeparatorCount(upd.lines[i]) > 1)
    => /\ upd.afterSerial.pwm = upd.pre.pwm
       /\ upd.afterSerial.angle = upd.pre.angle
       /\ upd.afterSerial.lastHeartbeatTime = upd.pre.lastHeartbeatTime

\* C6: after setSpeed(s) the PWM value is s saturated into 0..255.
C6_SpeedClamp ==
    applied.op = "setSpeed" =>
        /\ pwm \in 0..255
        /\ applied.arg < 0 => pwm = 0
        /\ applied.arg > 255 => pwm = 255
        /\ applied.arg \in 0..255 => pwm = applied.arg

\* a speed above the range, applied as 255
C6_Witness == applied.op = "setSpeed" /\ applied.arg = 256 /\ pwm = 255

\* C7: after setPosition(c) the servo is at 30, 90, 150 for c = 0, 1, 2 and
\* at the home position 0 for every other c.
C7_PositionMap ==
    applied.op = "setPosition" =>
        /\ applied.arg = 0 => angle = 30
        /\ applied.arg = 1 => angle = 90
        /\ applied.arg = 2 => angle = 150
        /\ applied.arg \notin {0, 1, 2} => angle = 0

\* the watchdog's code 9, mapped to the home position
C7_Witness == applied.op = "setPosition" /\ applied.arg = 9 /\ angle = 0

\* C8: an update() prints a telemetry record exactly when at least 100 ms
\* have passed since the telemetry timer was set, and then only one; no span
\* of one second (from a record to 1000 ms after it, that end excluded)
\* holds more than 10 records.
C8_TelemetryRate ==
    /\ upd.done =>
        /\ Len(serialOut) <= 1
        /\ serialOut # <<>> <=> upd.sinceSend >= 100
    /\ watch.on => watch.count <= 10

\* ten records inside one second
C8_Witness == watch.on /\ watch.count = 10 /\ serialOut # <<>>

\* the roundings of a sample (the count, the quotient, the product) leave a
\* relative error below 2^-22
FloatTolerance == 2^22

\* the float rpm is within the tolerance of the exact fraction a / b
WithinTolerance(rpm, exact) ==
    LET diff == rpm.num * exact.den - exact.num * rpm.den
        size == IF diff < 0 THEN 0 - diff ELSE diff
    IN  size <= (exact.num * rpm.den) \div FloatTolerance

\* C9: a sample sets the RPM estimate to n / p * 60 for the n pulses counted
\* since the previous reset, within the tolerance of single-precision
\* arithmetic (32 pulses at 16 per revolution give 120 exactly), and resets
\* the counter to 0.
C9_RpmSample ==
    /\ sample.done =>
         WithinTolerance(currentRpm, Fraction(sample.n * 60, pulsesPerRevolution))
    /\ (sample.done /\ sample.n = 32 /\ pulsesPerRevolution = 16)
         => currentRpm = [num |-> 120, den |-> 1]
    /\ rpmPc = "attach" => pulseCount = 0

\* 63 pulses with 480 pulses per revolution: the float next below 7.875
C9_Witness ==
    /\ sample.done
    /\ sample.n = 63
    /\ pulsesPerRevolution = 480
    /\ currentRpm = [num |-> 16515071, den |-> 2097152]
    /\ rpmPc = "attach"
    /\ pulseCount = 0

\* C10: the interrupt is detached from the read of the counter to after its
\* reset and attached otherwise; the counter holds exactly the edges
\* delivered to countPulse and not yet sampled, and a sample takes all of
\* them.
C10_MaskedReadReset ==
    /\ rpmPc \in {"compute", "reset", "attach"} => ~attached
    /\ (phase = "running" /\ rpmPc = "idle") => attached
    /\ rpmPc \in {"idle", "compute"} => pulseCount = window
    /\ rpmPc = "reset" => window = 0 /\ pulseCount = sample.n
    /\ rpmPc = "attach" => window = 0 /\ pulseCount = 0

\* an edge arrived while the interrupt was detached and was not counted; the
\* edges before it went into the sample
C10_Witness ==
    /\ rpmPc = "attach"
    /\ missed > 0
    /\ sample.done
    /\ sample.n > 0
    /\ window = 0

\* C11: a cycle that completes an accepted command line dispatches it and
\* refreshes the heartbeat timestamp before its heartbeat check: the check
\* finds the timestamp of this very call and leaves the actuators at the
\* values the serial pass set, also when the deadline had passed when the
\* cycle began.
C11_CommandBeforeCheck ==
    (/\ upd.done
     /\ \E i \in 1..Len(upd.lines) : SeparatorCount(upd.lines[i]) > 0)
    => /\ upd.afterSerial.lastHeartbeatTime = upd.t
       /\ lastHeartbeatTime = upd.t
       /\ pwm = upd.afterSerial.pwm
       /\ angle = upd.afterSerial.angle
       /\ upd.lines = <<Cmd200>> => pwm = 200 /\ angle = SERVO_POS_SQUARE

\* "200_1" read by a cycle that began past the deadline with the motor
\* stopped: the cycle ends at speed 200 and the square position
C11_Witness ==
    /\ upd.done
    /\ upd.lines = <<Cmd200>>
    /\ U32Less(U32(HEARTBEAT_TIMEOUT_MS), U32Sub(upd.t, upd.pre.lastHeartbeatTime))
    /\ upd.pre.pwm = 0
    /\ upd.pre.angle = SERVO_POS_UNKNOWN
    /\ pwm = 200
    /\ angle = SERVO_POS_SQUARE

\* C12: within a cycle the heartbeat check, with its safe-state action, comes
\* before the telemetry attempt, which is the last step: the actuators at the
\* end of the cycle are those the telemetry attempt found.
C12_TelemetryLast ==
    upd.done => /\ pwm = upd.afterSend.pwm
                /\ angle = upd.afterSend.angle

\* a field made of decimal digits only
IsDecimal(field) == field # <<>> /\ \A i \in 1..Len(field) : field[i] \in Digits

\* the number a string of decimal digits denotes
RECURSIVE DecimalValue(_)
DecimalValue(field) ==
    IF field = <<>> THEN 0
    ELSE DecimalValue(SubSeq(field, 1, Len(field) - 1)) * 10 + DigitVal(field[Len(field)])

\* the two fields of a line around its first separator
SpeedField(line) == SubSeq(line, 1, IndexOf(line, "_"))

CodeField(line) == SubSeq(line, IndexOf(line, "_") + 2, Len(line))

\* the position table of the protocol
PositionOf(code) ==
    CASE code = 0 -> SERVO_POS_TRIANGLE
      [] code = 1 -> SERVO_POS_SQUARE
      [] code = 2 -> SERVO_POS_CIRCLE
      [] OTHER -> SERVO_POS_UNKNOWN

\* the last line a cycle completed
LastLine == upd.lines[Len(upd.lines)]

\* C13: whatever lines came before, a line "<s>_<c>" with two decimal integer
\* fields leaves the motor at s clamped into 0..255 and the servo at the
\* position of code c.
C13_DecimalLineApplied ==
    (/\ upd.done
     /\ upd.lines # <<>>
     /\ SeparatorCount(LastLine) = 1
     /\ IsDecimal(SpeedField(LastLine))
     /\ IsDecimal(CodeField(LastLine)))
    => /\ upd.afterSerial.pwm = Constrain(DecimalValue(SpeedField(LastLine)), 0, 255)
       /\ upd.afterSerial.angle = PositionOf(DecimalValue(CodeField(LastLine)))

\* the bytes of a stream that follow its last delimiter
SinceDelimiter(stream) ==
    LET ends == {i \in 1..Len(stream) : stream[i] = NL}
    IN  IF ends = {} THEN stream
        ELSE SubSeq(stream, (CHOOSE i \in ends : \A j \in ends : j <= i) + 1, Len(stream))

\* C14: the input buffer never holds the delimiter; a cycle leaves in it
\* exactly the bytes received since the last delimiter, counting those kept
\* from earlier cycles, so it is empty right after a delimiter whether the
\* line was accepted or not; nothing but a cycle's serial pass changes it.
C14_BufferSinceDelimiter ==
    [][IF upd'.done /\ upd' # upd
       THEN LET consumed == SubSeq(wire, 1, Len(wire) - Len(wire'))
            IN  /\ inputString' = SinceDelimiter(inputString \o consumed)
                /\ \A i \in 1..Len(inputString') : inputString'[i] # NL
                /\ (consumed # <<>> /\ consumed[Len(consumed)] = NL) => inputString' = <<>>
       ELSE inputString' = inputString]_vars

\* the rest of "abc" and its delimiter arrive in a later cycle than "ab":
\* the line is dropped and the buffer is empty
C14_Witness ==
    /\ upd.done
    /\ upd.pre.inputString = <<"a", "b">>
    /\ upd.lines = <<Abc>>
    /\ upd.afterSerial.pwm = upd.pre.pwm
    /\ inputString = <<>>

\* C15: a sample begins only when at least 1000 ms have passed since the
\* estimator's last sample time; a call of update() that is not due (a step
\* of the sensor from its idle point that begins no sample) leaves the RPM
\* estimate, the pulse counter, the last sample time and the interrupt
\* attachment as they were; the estimate changes in no step but a sample's
\* computation, whatever pulses arrive.
C15_SampleOnlyWhenDue ==
    [][/\ (rpmPc = "idle" /\ rpmPc' = "compute")
          => U32Leq(U32(1000), U32Sub(now, lastRpmTime))
       /\ (/\ phase = "running"
           /\ rpmPc = "idle"
           /\ rpmPc' = "idle"
           /\ UNCHANGED <<clock, edges>>)
          => UNCHANGED <<currentRpm, pulseCount, lastRpmTime, attached>>
       /\ currentRpm' # currentRpm => rpmPc = "compute"
       /\ lastRpmTime' # lastRpmTime => rpmPc = "attach"]_vars

\* update() called 999 ms after the sample at 1000 ms, with a pulse counted
\* since: the estimate is still the 120 RPM of that sample
C15_Witness ==
    /\ rpmPc = "idle"
    /\ now = U32(1999)
    /\ rpmTime = now
    /\ lastRpmTime = U32(1000)
    /\ pulseCount > 0
    /\ attached
    /\ currentRpm = [num |-> 120, den |-> 1]

\* the number of leading characters of a field that are decimal digits
LeadingLen(field) ==
    CHOOSE n \in 0..Len(field) :
        /\ \A i \in 1..n : field[i] \in Digits
        /\ n = Len(field) \/ field[n + 1] \notin Digits

\* the integer formed by the leading decimal digits of a field, 0 if none
LeadingValue(field) == DecimalValue(SubSeq(field, 1, LeadingLen(field)))

\* the same after leading blanks and one optional sign
SignedLeadingValue(field) ==
    LET blanks == CHOOSE n \in 0..Len(field) :
                      /\ \A i \in 1..n : IsSpace(field[i])
                      /\ n = Len(field) \/ ~IsSpace(field[n + 1])
        body == SubSeq(field, blanks + 1, Len(field))
        signed == body # <<>> /\ body[1] \in {"-", "+"}
        magnitude == LeadingValue(IF signed THEN Tail(body) ELSE body)
    IN  IF signed /\ body[1] = "-" THEN 0 - magnitude ELSE magnitude

Underscore == <<"_">>

AbcX == <<"a", "b", "c", "_", "x">>

\* C18 as stated: an accepted line refreshes the heartbeat and dispatches,
\* for each field, the integer formed by its leading decimal digits (0 when
\* it has none).
C18_LeadingDigits ==
    (/\ upd.done
     /\ upd.lines # <<>>
     /\ SeparatorCount(LastLine) > 0)
    => /\ upd.afterSerial.lastHeartbeatTime = upd.t
       /\ upd.afterSerial.pwm = Constrain(LeadingValue(SpeedField(Trim(LastLine))), 0, 255)
       /\ upd.afterSerial.angle = PositionOf(LeadingValue(CodeField(Trim(LastLine))))

\* C18 amended: an accepted line refreshes the heartbeat and dispatches, for
\* each field, the integer read after leading blanks and an optional sign
\* from the leading decimal digits (0 when there are none), narrowed to the
\* 16-bit int; "abc_x" and "_" dispatch speed 0 and position code 0.
C18_SignedLeadingDigits ==
    (/\ upd.done
     /\ upd.lines # <<>>
     /\ SeparatorCount(LastLine) > 0)
    => /\ upd.afterSerial.lastHeartbeatTime = upd.t
       /\ upd.afterSerial.pwm =
              Constrain(ToInt16(SignedLeadingValue(SpeedField(Trim(LastLine)))), 0, 255)
       /\ upd.afterSerial.angle =
              PositionOf(ToInt16(SignedLeadingValue(CodeField(Trim(LastLine)))))
       /\ LastLine \in {Underscore, AbcX}
              => upd.afterSerial.pwm = 0 /\ upd.afterSerial.angle = SERVO_POS_TRIANGLE

\* "1_-1" read 2500 ms after setup: the heartbeat is refreshed, the speed is
\* 1 and the code -1 sends the servo home, not to the position of code 0
C18_Witness ==
    /\ upd.done
    /\ upd.lines = << <<"1", "_", "-", "1">> >>
    /\ upd.pre.lastHeartbeatTime # upd.t
    /\ lastHeartbeatTime = upd.t
    /\ pwm = 1
    /\ angle = SERVO_POS_UNKNOWN

\* C19: from setup until the first accepted command the motor output is 0
\* and the servo is at the UNKNOWN position in every state, whatever lines
\* without separator arrive; the heartbeat's elapsed time is the time since
\* setup, so the check of a cycle finds the deadline passed exactly when more
\* than 2000 ms have gone by since setup.
C19_SafeUntilCommand ==
    (phase = "running" /\ ~seen.command)
    => /\ pwm = 0
       /\ angle = SERVO_POS_UNKNOWN
       /\ U32Sub(now, lastHeartbeatTime) = U32(clock)
       /\ upd.done =>
            (U32Less(U32(HEARTBEAT_TIMEOUT_MS),
                     U32Sub(upd.tCheck, upd.afterSend.lastHeartbeatTime))
             <=> clock > 2000)

\* "abc" read more than 2000 ms after setup, no command accepted so far: the
\* check found the deadline passed and the outputs are the safe ones
C19_Witness ==
    /\ phase = "running"
    /\ ~seen.command
    /\ upd.done
    /\ upd.lines = <<Abc>>
    /\ clock > 2000
    /\ safeRuns >= 1
    /\ pwm = 0
    /\ angle = SERVO_POS_UNKNOWN

\* C16 as stated: from setup on, the heartbeat timestamp never decreases.
C16_TimestampMonotonic ==
    [][phase = "running" => U32Leq(lastHeartbeatTime, lastHeartbeatTime')]_vars

\* C16 amended: from setup on, the heartbeat timestamp never decreases as
\* long as the 32-bit millisecond clock has not wrapped.
C16_MonotonicUntilWrap ==
    [][(phase = "running" /\ ~seen'.wrap)
          => U32Leq(lastHeartbeatTime, lastHeartbeatTime')]_vars

\* a command accepted shortly before the wrap, after one accepted earlier:
\* the timestamp has grown to a value near 2^32
C16_Witness ==
    /\ ~seen.wrap
    /\ upd.done
    /\ upd.lines = <<Cmd200>>
    /\ upd.pre.lastHeartbeatTime = U32(1000)
    /\ lastHeartbeatTime.hi = Half - 1

\* what the three timers owe to the true elapsed times, wrap or no wrap
WrapTimersExact ==
    /\ (phase = "running" /\ idle < Long)
          => U32Sub(now, lastHeartbeatTime) = U32(idle)
    /\ sinceSend < Long
          => U32Sub(now, lastSerialSendTime) = U32(sinceSend)
    /\ (rpmPc = "idle" /\ seen.sinceSample < Long)
          => U32Sub(now, lastRpmTime) = U32(seen.sinceSample)
    /\ (upd.done /\ upd.idle < Long)
          => IF upd.idle > 2000
             THEN pwm = 0 /\ angle = SERVO_POS_UNKNOWN
             ELSE pwm = upd.afterSend.pwm /\ angle = upd.afterSend.angle
    /\ (upd.done /\ upd.idle >= Long /\ ~seen.wrap)
          => pwm = 0 /\ angle = SERVO_POS_UNKNOWN
    /\ (upd.done /\ upd.sinceSend < Long)
          => (serialOut # <<>> <=> upd.sinceSend >= 100)
    /\ (upd.done /\ upd.sinceSend >= Long /\ ~seen.wrap)
          => serialOut # <<>>

\* C20: each elapsed-time test works on the modular difference now - last,
\* which is the true elapsed time also when the clock has wrapped in between
\* (for true elapsed times below 2^32 ms): the heartbeat check fires exactly
\* beyond 2000 ms, telemetry is printed exactly from 100 ms on, an RPM sample
\* begins exactly from 1000 ms on; and the actuators leave the values 0 and
\* UNKNOWN in no step but a cycle that completes an accepted line.
C20_WrapSafe ==
    [][/\ WrapTimersExact'
       /\ (rpmPc = "idle" /\ rpmPc' = "compute" /\ seen.sinceSample < Long)
             => seen.sinceSample >= 1000
       /\ (/\ phase = "running"
           /\ rpmPc = "idle"
           /\ rpmPc' = "idle"
           /\ seen.sinceRead # 0
           /\ seen'.sinceRead = 0
           /\ seen.sinceSample < Long \/ ~seen.wrap)
             => seen.sinceSample < 1000
       /\ (phase = "running" /\ (pwm' # pwm \/ angle' # angle))
             => \/ pwm' = 0 /\ angle' = SERVO_POS_UNKNOWN
                \/ /\ upd'.done
                   /\ \E i \in 1..Len(upd'.lines) : SeparatorCount(upd'.lines[i]) > 0]_vars

\* "200_1" accepted before the wrap, the check 2001 ms later, after the
\* wrap: the clock reads less than the timestamp and the motor is stopped
C20_Witness ==
    /\ seen.wrap
    /\ upd.done
    /\ upd.idle = 2001
    /\ U32Less(now, lastHeartbeatTime)
    /\ upd.afterSend.pwm = 200
    /\ pwm = 0
    /\ angle = SERVO_POS_UNKNOWN

\* inside a call the check has not run yet, and the serial pass leaves the
\* buffer and the actuators that handling the bytes it read, one after the
\* other, leaves (the clock may move on while the bytes are read)
CycleDrained ==
    /\ cycle.pc # "idle" => cycle.checks = 0
    /\ cycle.pc = "send" =>
          LET s == HandleSerial(cycle.pre, cycle.read, now)
          IN  /\ inputString = s.inputString
              /\ pwm = s.pwm
              /\ angle = s.angle

\* C17: every call of update() returns, having run the heartbeat check
\* exactly once, whether or not bytes were read or telemetry was printed;
\* the serial pass ends only when no byte is available, and it leaves what
\* handling the bytes it read one after the other, each completed line in
\* arrival order, leaves.  The host sends finitely many bytes.
C17_CycleTerminates ==
    /\ (cycle.pc # "idle") ~> (cycle.pc = "idle" /\ cycle.checks = 1)
    /\ []CycleDrained
    /\ [][/\ (cycle.pc # "idle" /\ cycle'.pc = "idle") => cycle'.checks = 1
          /\ (cycle.pc = "serial" /\ cycle'.pc = "send") => wire = <<>>]_vars

\* a call that read "abc" and "200_1", the second sent while the first was
\* being read, and one that read nothing: each returned after one check
C17_Witness ==
    /\ cycle.pc = "idle"
    /\ cycle.checks = 1
    /\ cycle.read = Abc \o <<NL>> \o Cmd200 \o <<NL>>
    /\ pwm = 200
    /\ serialOut = <<>>
    /\ wire = <<>>

====
